---- MODULE Spec2Model ----
(***************************************************************************)
(* A model of the Sudoku core of CIS-211 (Projects/sudoku-master):         *)
(* Group.is_consistent / naked_single_constrain / hidden_single_constrain  *)
(* (sdk_group.py) and naked_single / hidden_single / propagate / solve     *)
(* (sdk_solver.py).  Tile and Board (sdk_tile.py, sdk_board.py) are not    *)
(* among the source files; they are modelled from spec.md sections 3, 4.1  *)
(* and 4.3.                                                                *)
(*                                                                         *)
(* Digits '1'..'9' are the integers 1..9 and UNKNOWN is 0.  Tiles are      *)
(* numbered 1..81 in row-major order.                                      *)
(*                                                                         *)
(* BitSpec is a model of BitField.insert / extract                         *)
(* (Projects/bitfields-master/bitfield.py), and AsmSpec one of build_table *)
(* (Projects/duck_machine-master/assembler_pass1.py).                      *)
(***************************************************************************)
EXTENDS Integers, FiniteSets, Sequences, TLC

\* ------------------------------------------------------------------ sizes

\* Tiles in a group (sdk_group.py: assert len(self.tiles) < 9 before append).
NROWS == 9

\* Side of a block (spec.md: "3x3 block").
ROOT == 3

\* sdk_tile.UNKNOWN, the value of a tile that holds no digit.
UNKNOWN == 0

\* sdk_tile.CHOICES; sdk_group.py line 132 spells the same set out.
CHOICES == 1..NROWS

NTILES == NROWS * NROWS

Tiles == 1..NTILES

RowOf(t) == (t - 1) \div NROWS

ColOf(t) == (t - 1) % NROWS

TileAt(r, c) == r * NROWS + c + 1

\* ---------------------------------------------------------------- board

\* Board.groups: 9 rows, 9 columns, 9 blocks, each a list of 9 tiles.
RowGroup(r) == [k \in 1..NROWS |-> TileAt(r, k - 1)]

ColGroup(c) == [k \in 1..NROWS |-> TileAt(k - 1, c)]

BlockGroup(b) ==
    [k \in 1..NROWS |->
        TileAt(ROOT * (b \div ROOT) + ((k - 1) \div ROOT),
               ROOT * (b % ROOT) + ((k - 1) % ROOT))]

NGROUPS == 3 * NROWS

Groups ==
    [g \in 1..NGROUPS |->
        IF g <= NROWS THEN RowGroup(g - 1)
        ELSE IF g <= 2 * NROWS THEN ColGroup(g - NROWS - 1)
        ELSE BlockGroup(g - 2 * NROWS - 1)]

\* The tiles of each group, as sets.
MemberSets == [g \in 1..NGROUPS |-> {Groups[g][k] : k \in 1..NROWS}]

Members(g) == MemberSets[g]

\* The groups a tile belongs to: its row, its column and its block.
GroupsOf(t) == {g \in 1..NGROUPS : t \in Members(g)}

\* ------------------------------------------------------- the input grids

\* A complete valid grid; its first row is 1 2 3 4 5 6 7 8 9.
BaseGrid ==
    [t \in Tiles |->
        ((ROOT * (RowOf(t) % ROOT) + (RowOf(t) \div ROOT) + ColOf(t)) % NROWS) + 1]

\* Hole patterns cut into BaseGrid, as sets of tiles:
\*   1  no hole (the grid is full);
\*   2  six tiles holding 1 and 4 that can be swapped: two completions, and
\*      propagation stalls with every open tile at two candidates;
\*   3  eight holes in the top band;
\*   4  seven holes: hidden single fills a tile that naked single had already
\*      narrowed to one candidate.
Patterns ==
    << {},
       {TileAt(0, 0), TileAt(0, 3), TileAt(1, 0), TileAt(1, 6), TileAt(2, 3),
        TileAt(2, 6)},
       {TileAt(0, 1), TileAt(0, 2), TileAt(0, 4), TileAt(0, 7), TileAt(1, 2),
        TileAt(1, 4), TileAt(2, 4), TileAt(2, 5)},
       {TileAt(2, 7), TileAt(5, 6), TileAt(5, 7), TileAt(5, 8), TileAt(8, 6),
        TileAt(8, 7), TileAt(8, 8)} >>

\* Further tiles that may be blanked, any subset of the first MaxHoles.
HoleSeq ==
    << TileAt(0, 5), TileAt(4, 4), TileAt(1, 4), TileAt(8, 8), TileAt(2, 0),
       TileAt(7, 3) >>

MaxHoles == 2

Holes == {HoleSeq[i] : i \in 1..MaxHoles}

\* Givens that may be overwritten with another digit, <<tile, digit>>: one of
\* the first MaxPokes, or none.
PokeSeq ==
    << <<TileAt(0, 1), 1>>, <<TileAt(1, 7), 8>>, <<TileAt(4, 0), 7>>,
       <<TileAt(8, 8), 1>> >>

MaxPokes == 2

Pokes == {PokeSeq[i] : i \in 1..MaxPokes}

NoPoke == <<0, 0>>

Grid(pattern, holes, poke) ==
    [t \in Tiles |->
        IF t = poke[1] THEN poke[2]
        ELSE IF t \in pattern \cup holes THEN UNKNOWN
        ELSE BaseGrid[t]]

\* Fifteen holes: four completions, and a guess that fails.
Holes15 ==
    {TileAt(0, 0), TileAt(0, 1), TileAt(0, 2), TileAt(3, 0), TileAt(3, 1),
     TileAt(3, 6), TileAt(4, 0), TileAt(4, 6), TileAt(5, 0), TileAt(5, 2),
     TileAt(5, 6), TileAt(6, 0), TileAt(6, 2), TileAt(8, 1), TileAt(8, 2)}

\* Twenty-three holes; with tile (5,5) overwritten by 2 no completion is left
\* and every guess fails.
Holes23 ==
    {TileAt(0, 1), TileAt(0, 2), TileAt(0, 3), TileAt(0, 5), TileAt(1, 0),
     TileAt(1, 5), TileAt(2, 1), TileAt(2, 2), TileAt(2, 5), TileAt(5, 1),
     TileAt(5, 2), TileAt(5, 3), TileAt(6, 0), TileAt(6, 1), TileAt(6, 3),
     TileAt(6, 5), TileAt(7, 2), TileAt(7, 3), TileAt(7, 5), TileAt(8, 0),
     TileAt(8, 1), TileAt(8, 2), TileAt(8, 3)}

\* Twenty holes: one completion, which propagation alone does not reach, and
\* a guess that fails.
Holes20 ==
    {TileAt(0, 0), TileAt(0, 2), TileAt(0, 3), TileAt(1, 0), TileAt(1, 4),
     TileAt(2, 1), TileAt(2, 3), TileAt(2, 4), TileAt(2, 5), TileAt(5, 0),
     TileAt(5, 2), TileAt(6, 0), TileAt(6, 1), TileAt(6, 5), TileAt(7, 2),
     TileAt(7, 5), TileAt(8, 1), TileAt(8, 2), TileAt(8, 3), TileAt(8, 4)}

\* Fourteen holes: propagation stalls with an open tile at one candidate.
Holes14 ==
    {TileAt(0, 5), TileAt(0, 8), TileAt(1, 2), TileAt(1, 3), TileAt(1, 5),
     TileAt(2, 2), TileAt(2, 8), TileAt(3, 0), TileAt(3, 3), TileAt(3, 5),
     TileAt(3, 6), TileAt(4, 0), TileAt(4, 3), TileAt(4, 6)}

Puzzles ==
    { Grid(Holes15, {}, NoPoke),
      Grid(Holes23, {}, <<TileAt(5, 5), 2>>),
      Grid(Holes20, {}, NoPoke),
      Grid(Holes14, {}, NoPoke) }

InputGrids ==
    {Grid(Patterns[k], h, p) :
        k \in 1..Len(Patterns), h \in SUBSET Holes, p \in Pokes \cup {NoPoke}}
    \cup Puzzles

\* ----------------------------------------------------------------- state

VARIABLES
    value,        \* Tile.value of each of the 81 tiles
    candidates,   \* Tile.candidates of each tile
    initial,      \* the grid the board was built from
    pc,           \* where the solver is: naked, hidden, post, try, ret, done
    gi,           \* index into board.groups of the tactic loop
    leftovers,    \* hidden_single_constrain: the digits still to examine
    entry,        \* tile values when the current group call was entered
    gchanged,     \* hidden_single_constrain: its local "changed"
    hchanged,     \* hidden_single: its local "changed"
    changed,      \* propagate: its local "changed"
    iterCands,    \* candidates on the board when the current iteration of
                  \* propagate's loop began, summed over the tiles
    iterOpen,     \* UNKNOWN tiles on the board when that iteration began
    stack,        \* the solve calls that are guessing, innermost last
    result        \* the value returned by the solve call that just returned

\* The BitField run (bitfields-master/bitfield.py).
VARIABLES
    from_bit,     \* BitField.from_bit
    to_bit,       \* BitField.to_bit
    word,         \* the word given to insert
    field_val,    \* the field value given to insert
    inserted,     \* the word insert returned
    extracted,    \* the value extract returned from it
    mask,         \* BitField.mask
    bpc           \* where the run is: idle, made, inserted, extracted

\* The assembler's first pass (duck_machine-master/assembler_pass1.py).
VARIABLES
    lines,        \* build_table's argument
    lnum,         \* the lines build_table has gone through
    address,      \* build_table's address
    symbol_table, \* build_table's symbol_table
    error_count,  \* build_table's error_count
    apc           \* where the pass is: idle, loop, returned, exited

sdkVars ==
    << value, candidates, initial, pc, gi, leftovers, entry, gchanged,
       hchanged, changed, iterCands, iterOpen, stack, result >>

bitVars ==
    << from_bit, to_bit, word, field_val, inserted, extracted, mask, bpc >>

asmVars == << lines, lnum, address, symbol_table, error_count, apc >>

vars == << sdkVars, bitVars, asmVars >>

\* A Python int, which has no width: a non-negative int is the set of the
\* positions of its 1 bits; a negative int, in two's complement, has 1 bits
\* from some position on for ever and is the set of positions of its 0 bits.
IntOf(neg, bits) == [neg |-> neg, bits |-> bits]

Zero == IntOf(FALSE, {})

\* No BitField run is going on.
BitIdle ==
    /\ from_bit = 0
    /\ to_bit = 0
    /\ word = Zero
    /\ field_val = Zero
    /\ inserted = Zero
    /\ extracted = Zero
    /\ mask = Zero
    /\ bpc = "idle"

\* No assembly is going on.
AsmIdle ==
    /\ lines = << >>
    /\ lnum = 0
    /\ address = 0
    /\ symbol_table = << >>
    /\ error_count = 0
    /\ apc = "idle"

\* ------------------------------------------------------------------ Tile

\* Tile.set_value(v) on tile t: the value is v and the candidates are {v}.
SetValueV(vals, t, v) == [vals EXCEPT ![t] = v]

SetValueC(cands, t, v) == [cands EXCEPT ![t] = {v}]

\* Tile.eliminate(used): an UNKNOWN tile loses the used digits.
Eliminate(vals, cands, t, used) ==
    IF vals[t] = UNKNOWN THEN cands[t] \ used ELSE cands[t]

\* Tile.could_be(v).
CouldBe(cands, t, v) == v \in cands[t]

\* The tiles that hold no digit.
Unknowns(grid) == {t \in Tiles : grid[t] = UNKNOWN}

\* A tile as the board builds it from a grid symbol.
NewCandidates(v) == IF v = UNKNOWN THEN CHOICES ELSE {v}

\* ----------------------------------------------------------------- Group

\* Group.is_complete: no member tile is UNKNOWN.
GroupIsComplete(vals, g) == \A t \in Members(g) : vals[t] # UNKNOWN

\* is_consistent that returns True at once for a group that is complete.
GroupIsConsistentOrComplete(vals, cands, g) ==
    LET tiles == Groups[g] IN
    \/ GroupIsComplete(vals, g)
    \/ /\ \A k \in 1..NROWS :
             /\ cands[tiles[k]] # {}
             /\ vals[tiles[k]] # UNKNOWN
                   => \A j \in 1..(k - 1) : vals[tiles[j]] # vals[tiles[k]]
       /\ UNION {cands[tiles[k]] : k \in 1..NROWS} = CHOICES

\* is_consistent whose loop never adds a value to used.
RECURSIVE IsConsistentUnrecorded(_, _, _, _, _, _)
IsConsistentUnrecorded(vals, cands, g, k, used, can_place) ==
    IF k > NROWS THEN can_place = CHOICES
    ELSE LET t == Groups[g][k] IN
         IF cands[t] = {} THEN FALSE
         ELSE IF vals[t] \in used THEN FALSE
         ELSE IsConsistentUnrecorded(vals, cands, g, k + 1, used,
                                     can_place \cup cands[t])

\* Group.is_consistent, lines 66-81: the loop from the k-th tile of the
\* group on, and the test of can_place after it.
RECURSIVE IsConsistentFrom(_, _, _, _, _, _)
IsConsistentFrom(vals, cands, g, k, used, can_place) ==
    IF k > NROWS THEN can_place = CHOICES
    ELSE LET t == Groups[g][k] IN
         IF cands[t] = {} THEN FALSE
         ELSE IF vals[t] \in used THEN FALSE
         ELSE IsConsistentFrom(vals, cands, g, k + 1,
                               IF vals[t] # UNKNOWN THEN used \cup {vals[t]}
                                                    ELSE used,
                               can_place \cup cands[t])

\* Group.is_consistent: every tile has a candidate, no value is held twice,
\* and the candidates together are all of CHOICES.
GroupIsConsistent(vals, cands, g) == IsConsistentFrom(vals, cands, g, 1, {}, {})

\* set_remaining left empty: the assigned values are never collected.
SetRemainingEmpty(vals, g) == {}

\* Group.duplicates, lines 85-93: the scan from the k-th tile of the group
\* on.  A report names a value, and stands here as that value.  No line of
\* the loop adds to used.
RECURSIVE DuplicatesFrom(_, _, _, _, _)
DuplicatesFrom(vals, g, k, used, reports) ==
    IF k > NROWS THEN reports
    ELSE LET v == vals[Groups[g][k]] IN
         IF v = UNKNOWN
         THEN DuplicatesFrom(vals, g, k + 1, used, reports)
         ELSE IF v \in used
         THEN DuplicatesFrom(vals, g, k + 1, used, Append(reports, v))
         ELSE DuplicatesFrom(vals, g, k + 1, used, reports)

Duplicates(vals, g) == DuplicatesFrom(vals, g, 1, {}, << >>)

\* naked_single_constrain, lines 107-112: the values used in the group.
SetRemaining(vals, g) == {vals[t] : t \in {u \in Members(g) : vals[u] # UNKNOWN}}

\* naked_single_constrain that leaves its loop at the first tile that lost a
\* candidate.
NakedSingleFirstChangeOnly(vals, cands, g) ==
    LET tiles == Groups[g]
        hit == {k \in 1..NROWS :
                   Eliminate(vals, cands, tiles[k], SetRemaining(vals, g))
                       # cands[tiles[k]]}
    IN  [t \in Tiles |->
            IF hit # {} /\ t = tiles[CHOOSE k \in hit : \A j \in hit : k <= j]
            THEN Eliminate(vals, cands, t, SetRemaining(vals, g))
            ELSE cands[t]]

\* naked_single_constrain, lines 113-115: the candidates after the call.
NakedSingleConstrain(vals, cands, g) ==
    [t \in Tiles |->
        IF t \in Members(g)
        THEN Eliminate(vals, cands, t, SetRemaining(vals, g))
        ELSE cands[t]]

\* leftovers without the subtraction of the member tiles' values.
LeftoversUnpruned(vals, g) == CHOICES

\* hidden_single_constrain, lines 132-135: the digits no member tile holds.
Leftovers(vals, g) == CHOICES \ {vals[t] : t \in Members(g)}

\* bucket assigned "[tile]" in place of append: it holds the last tile of the
\* group that could be the digit.
BucketOverwritten(cands, g, v) ==
    LET hit == {k \in 1..NROWS : CouldBe(cands, Groups[g][k], v)}
    IN  IF hit = {} THEN {}
        ELSE {Groups[g][CHOOSE k \in hit : \A m \in hit : m <= k]}

\* hidden_single_constrain, lines 138-142: the tiles that could hold v.
Bucket(cands, g, v) == {t \in Members(g) : CouldBe(cands, t, v)}

\* ----------------------------------------------------------------- Board

\* Board.is_solved: every group is complete.
IsSolved(vals) == \A g \in 1..NGROUPS : GroupIsComplete(vals, g)

\* Board.is_consistent: every group is consistent.
IsConsistent(vals, cands) ==
    \A g \in 1..NGROUPS : GroupIsConsistent(vals, cands, g)

\* The symbols of a snapshot: the digits, and a placeholder for UNKNOWN.
DigitSymbols == << "1", "2", "3", "4", "5", "6", "7", "8", "9" >>

Placeholder == "."

SymbolOf(v) == IF v = UNKNOWN THEN Placeholder ELSE DigitSymbols[v]

Symbols == {Placeholder} \cup {DigitSymbols[v] : v \in CHOICES}

\* The value each symbol stands for.
SymbolValues ==
    [sym \in Symbols |->
        IF sym = Placeholder THEN UNKNOWN
        ELSE CHOOSE v \in CHOICES : DigitSymbols[v] = sym]

ValueOf(sym) == SymbolValues[sym]

\* as_list that goes through the grid column by column.
AsListByColumn(vals) ==
    [i \in 1..NTILES |->
        SymbolOf(vals[TileAt((i - 1) % NROWS, (i - 1) \div NROWS)])]

\* Board.as_list: the symbols of the 81 tiles, row by row.
AsList(vals) ==
    [i \in 1..NTILES |->
        SymbolOf(vals[TileAt((i - 1) \div NROWS, (i - 1) % NROWS)])]

\* Board.set_tiles(snapshot): the value each tile gets back.
SetTilesV(snapshot) ==
    [t \in Tiles |-> ValueOf(snapshot[RowOf(t) * NROWS + ColOf(t) + 1])]

\* The digits held by the tiles that share a group with t.
UsedAround(vals, t) ==
    {vals[u] : u \in UNION {Members(g) : g \in GroupsOf(t)}} \ {UNKNOWN}

\* Board.set_tiles: the candidates are recomputed from the restored values.  spec.md leaves open whether an UNKNOWN tile gets every digit back
\* (fromScratch) or the digits its groups do not hold; both are modelled.
SetTilesC(snapshot, fromScratch) ==
    [t \in Tiles |->
        IF snapshot[t] # UNKNOWN THEN {snapshot[t]}
        ELSE IF fromScratch THEN CHOICES
        ELSE CHOICES \ UsedAround(snapshot, t)]

\* ---------------------------------------------------------------- Solver

\* solve, line 71: min_cands = 10.
MinCandsStart == 10

\* best_tile = None.
None == 0

\* The scan with "<=" in place of "<": among the tiles with the fewest
\* candidates the last one is chosen.
RECURSIVE ScanTilesLastWins(_, _, _, _, _)
ScanTilesLastWins(vals, cands, t, best_tile, min_cands) ==
    IF t > NTILES THEN best_tile
    ELSE IF vals[t] = UNKNOWN /\ Cardinality(cands[t]) <= min_cands
         THEN ScanTilesLastWins(vals, cands, t + 1, t, Cardinality(cands[t]))
         ELSE ScanTilesLastWins(vals, cands, t + 1, best_tile, min_cands)

\* The scan without the test for UNKNOWN: a tile that holds a digit, with its
\* one candidate, can be chosen.
RECURSIVE ScanAnyTile(_, _, _, _, _)
ScanAnyTile(vals, cands, t, best_tile, min_cands) ==
    IF t > NTILES THEN best_tile
    ELSE IF Cardinality(cands[t]) < min_cands
         THEN ScanAnyTile(vals, cands, t + 1, t, Cardinality(cands[t]))
         ELSE ScanAnyTile(vals, cands, t + 1, best_tile, min_cands)

\* solve, lines 75-79: the row-major scan for the tile to guess.
RECURSIVE ScanTiles(_, _, _, _, _)
ScanTiles(vals, cands, t, best_tile, min_cands) ==
    IF t > NTILES THEN best_tile
    ELSE IF vals[t] = UNKNOWN /\ Cardinality(cands[t]) < min_cands
         THEN ScanTiles(vals, cands, t + 1, t, Cardinality(cands[t]))
         ELSE ScanTiles(vals, cands, t + 1, best_tile, min_cands)

BestTile(vals, cands) == ScanTiles(vals, cands, 1, None, MinCandsStart)

\* propagate, lines 50 and 53: the test that ends propagate early.
StopsPropagate(vals, cands) == IsSolved(vals) \/ ~IsConsistent(vals, cands)

NoCall == << >>

RECURSIVE SumCands(_, _)
SumCands(cands, t) ==
    IF t = 0 THEN 0 ELSE Cardinality(cands[t]) + SumCands(cands, t - 1)

\* The number of candidates on the board, summed over the 81 tiles.
TotalCandidates(cands) == SumCands(cands, NTILES)

\* The board built from a grid, and solve(board) entered: propagate is about
\* to apply naked single to the first group.
Init ==
    /\ initial \in InputGrids
    /\ value = initial
    /\ candidates = [t \in Tiles |-> NewCandidates(initial[t])]
    /\ pc = "naked"
    /\ gi = 1
    /\ leftovers = {}
    /\ entry = NoCall
    /\ gchanged = FALSE
    /\ hchanged = FALSE
    /\ changed = FALSE
    /\ iterCands = TotalCandidates(candidates)
    /\ iterOpen = Cardinality(Unknowns(value))
    /\ stack = << >>
    /\ result = FALSE
    /\ BitIdle
    /\ AsmIdle

\* naked_single, lines 24-25: group.naked_single_constrain() on the next
\* group; after the last group, propagate's line 50.
NakedStep ==
    /\ pc = "naked"
    /\ LET after == NakedSingleConstrain(value, candidates, gi)
           any == changed \/ (after # candidates)
       IN  /\ candidates' = after
           /\ IF gi < NGROUPS
              THEN /\ gi' = gi + 1
                   /\ changed' = any
                   /\ UNCHANGED << pc, leftovers, entry >>
              ELSE IF StopsPropagate(value, after)
              THEN /\ pc' = "post"
                   /\ gi' = 0
                   /\ changed' = FALSE
                   /\ UNCHANGED << leftovers, entry >>
              ELSE /\ pc' = "hidden"
                   /\ gi' = 1
                   /\ changed' = any
                   /\ leftovers' = Leftovers(value, 1)
                   /\ entry' = value
    /\ UNCHANGED << value, initial, gchanged, hchanged, iterCands, iterOpen,
                    stack, result >>
    /\ UNCHANGED << bitVars, asmVars >>

\* HiddenValue with "changed = True" outside the test of the bucket: every
\* digit examined reports a change.
HiddenValueAlwaysChanged ==
    /\ pc = "hidden"
    /\ \E v \in leftovers :
          LET bucket == Bucket(candidates, gi, v) IN
          /\ leftovers' = leftovers \ {v}
          /\ gchanged' = TRUE
          /\ IF Cardinality(bucket) = 1
             THEN LET t == CHOOSE u \in bucket : TRUE IN
                  /\ value' = SetValueV(value, t, v)
                  /\ candidates' = SetValueC(candidates, t, v)
             ELSE UNCHANGED << value, candidates >>
    /\ UNCHANGED << initial, pc, gi, entry, hchanged, changed, iterCands,
                    iterOpen, stack, result >>
    /\ UNCHANGED << bitVars, asmVars >>

\* HiddenValue with "tile.set_value(value)" in place of bucket.pop(): the
\* digit goes to the tile the loop over the group ended on, its last one.
HiddenValueSetsLastTile ==
    /\ pc = "hidden"
    /\ \E v \in leftovers :
          LET bucket == Bucket(candidates, gi, v) IN
          /\ leftovers' = leftovers \ {v}
          /\ IF Cardinality(bucket) = 1
             THEN LET t == Groups[gi][NROWS] IN
                  /\ value' = SetValueV(value, t, v)
                  /\ candidates' = SetValueC(candidates, t, v)
                  /\ gchanged' = TRUE
             ELSE UNCHANGED << value, candidates, gchanged >>
    /\ UNCHANGED << initial, pc, gi, entry, hchanged, changed, iterCands,
                    iterOpen, stack, result >>
    /\ UNCHANGED << bitVars, asmVars >>

\* HiddenValue without the set_value of line 144: a digit only one tile of
\* the group could hold is left unassigned.
HiddenValueSkips ==
    /\ pc = "hidden"
    /\ \E v \in leftovers : leftovers' = leftovers \ {v}
    /\ UNCHANGED << value, candidates, gchanged >>
    /\ UNCHANGED << initial, pc, gi, entry, hchanged, changed, iterCands,
                    iterOpen, stack, result >>
    /\ UNCHANGED << bitVars, asmVars >>

\* HiddenValue with the test "len(bucket) >= 1": a digit is given to a tile
\* although other tiles could hold it.
HiddenValueAnyBucket ==
    /\ pc = "hidden"
    /\ \E v \in leftovers :
          LET bucket == Bucket(candidates, gi, v) IN
          /\ leftovers' = leftovers \ {v}
          /\ IF Cardinality(bucket) >= 1
             THEN LET t == CHOOSE u \in bucket : TRUE IN
                  /\ value' = SetValueV(value, t, v)
                  /\ candidates' = SetValueC(candidates, t, v)
                  /\ gchanged' = TRUE
             ELSE UNCHANGED << value, candidates, gchanged >>
    /\ UNCHANGED << initial, pc, gi, entry, hchanged, changed, iterCands,
                    iterOpen, stack, result >>
    /\ UNCHANGED << bitVars, asmVars >>

\* hidden_single_constrain, lines 137-145: one digit of leftovers is examined,
\* in the order the set yields them.
HiddenValue ==
    /\ pc = "hidden"
    /\ \E v \in leftovers :
          LET bucket == Bucket(candidates, gi, v) IN
          /\ leftovers' = leftovers \ {v}
          /\ IF Cardinality(bucket) = 1
             THEN LET t == CHOOSE u \in bucket : TRUE IN
                  /\ value' = SetValueV(value, t, v)
                  /\ candidates' = SetValueC(candidates, t, v)
                  /\ gchanged' = TRUE
             ELSE UNCHANGED << value, candidates, gchanged >>
    /\ UNCHANGED << initial, pc, gi, entry, hchanged, changed, iterCands,
                    iterOpen, stack, result >>
    /\ UNCHANGED << bitVars, asmVars >>

\* HiddenReturn with "if changed:" for "while changed:": propagate returns
\* after its first iteration.
HiddenReturnNoRepeat ==
    /\ pc = "hidden"
    /\ leftovers = {}
    /\ LET any == gchanged \/ hchanged IN
       IF gi < NGROUPS
       THEN /\ gi' = gi + 1
            /\ hchanged' = any
            /\ leftovers' = Leftovers(value, gi + 1)
            /\ entry' = value
            /\ UNCHANGED << pc, changed >>
       ELSE /\ hchanged' = FALSE
            /\ leftovers' = {}
            /\ entry' = NoCall
            /\ changed' = FALSE
            /\ pc' = "post"
            /\ gi' = 0
    /\ gchanged' = FALSE
    /\ UNCHANGED << value, candidates, initial, stack, result, iterCands,
                    iterOpen >>
    /\ UNCHANGED << bitVars, asmVars >>

\* HiddenReturn with line 52 as "changed = hidden_single(board)": what the
\* naked-single pass reported is forgotten.
HiddenReturnForgetsNaked ==
    /\ pc = "hidden"
    /\ leftovers = {}
    /\ LET any == gchanged \/ hchanged IN
       IF gi < NGROUPS
       THEN /\ gi' = gi + 1
            /\ hchanged' = any
            /\ leftovers' = Leftovers(value, gi + 1)
            /\ entry' = value
            /\ UNCHANGED << pc, changed, iterCands, iterOpen >>
       ELSE /\ hchanged' = FALSE
            /\ leftovers' = {}
            /\ entry' = NoCall
            /\ changed' = FALSE
            /\ IF ~StopsPropagate(value, candidates) /\ any
               THEN /\ pc' = "naked"
                    /\ gi' = 1
                    /\ iterCands' = TotalCandidates(candidates)
                    /\ iterOpen' = Cardinality(Unknowns(value))
               ELSE /\ pc' = "post"
                    /\ gi' = 0
                    /\ UNCHANGED << iterCands, iterOpen >>
    /\ gchanged' = FALSE
    /\ UNCHANGED << value, candidates, initial, stack, result >>
    /\ UNCHANGED << bitVars, asmVars >>

\* hidden_single_constrain returns (line 148) to hidden_single, line 36, which
\* calls it on the next group; after the last group, propagate's lines 52-54.
HiddenReturn ==
    /\ pc = "hidden"
    /\ leftovers = {}
    /\ LET any == gchanged \/ hchanged IN
       IF gi < NGROUPS
       THEN /\ gi' = gi + 1
            /\ hchanged' = any
            /\ leftovers' = Leftovers(value, gi + 1)
            /\ entry' = value
            /\ UNCHANGED << pc, changed, iterCands, iterOpen >>
       ELSE /\ hchanged' = FALSE
            /\ leftovers' = {}
            /\ entry' = NoCall
            /\ changed' = FALSE
            /\ IF ~StopsPropagate(value, candidates) /\ (any \/ changed)
               THEN /\ pc' = "naked"
                    /\ gi' = 1
                    /\ iterCands' = TotalCandidates(candidates)
                    /\ iterOpen' = Cardinality(Unknowns(value))
               ELSE /\ pc' = "post"
                    /\ gi' = 0
                    /\ UNCHANGED << iterCands, iterOpen >>
    /\ gchanged' = FALSE
    /\ UNCHANGED << value, candidates, initial, stack, result >>
    /\ UNCHANGED << bitVars, asmVars >>

\* SolveCheck without the test of lines 68-69: an inconsistent board goes on
\* to the choice of a tile.
SolveCheckSkipsConsistency ==
    /\ pc = "post"
    /\ IF IsSolved(value)
       THEN pc' = "ret" /\ result' = TRUE /\ UNCHANGED stack
       ELSE LET best_tile == BestTile(value, candidates) IN
            IF best_tile = None
            THEN pc' = "error" /\ UNCHANGED << result, stack >>
            ELSE /\ pc' = "try"
                 /\ stack' = Append(stack, [save |-> AsList(value),
                                            best_tile |-> best_tile,
                                            cands |-> candidates[best_tile]])
                 /\ UNCHANGED result
    /\ UNCHANGED << value, candidates, initial, gi, leftovers, entry,
                    gchanged, hchanged, changed, iterCands, iterOpen >>
    /\ UNCHANGED << bitVars, asmVars >>

\* solve, lines 66-79, after propagate has returned.
SolveCheck ==
    /\ pc = "post"
    /\ IF IsSolved(value)
       THEN pc' = "ret" /\ result' = TRUE /\ UNCHANGED stack
       ELSE IF ~IsConsistent(value, candidates)
       THEN pc' = "ret" /\ result' = FALSE /\ UNCHANGED stack
       ELSE LET best_tile == BestTile(value, candidates) IN
            IF best_tile = None
            THEN pc' = "error" /\ UNCHANGED << result, stack >>
            ELSE /\ pc' = "try"
                 /\ stack' = Append(stack, [save |-> AsList(value),
                                            best_tile |-> best_tile,
                                            cands |-> candidates[best_tile]])
                 /\ UNCHANGED result
    /\ UNCHANGED << value, candidates, initial, gi, leftovers, entry,
                    gchanged, hchanged, changed, iterCands, iterOpen >>
    /\ UNCHANGED << bitVars, asmVars >>

Top == stack[Len(stack)]

Pop == SubSeq(stack, 1, Len(stack) - 1)

\* Guess with "best_tile.value = cands" in place of set_value: the tile's
\* candidates are left as they were.
GuessAssignsValueOnly ==
    /\ pc = "try"
    /\ \E c \in Top.cands :
          /\ value' = SetValueV(value, Top.best_tile, c)
          /\ stack' = [stack EXCEPT ![Len(stack)].cands = @ \ {c}]
    /\ pc' = "naked"
    /\ gi' = 1
    /\ iterCands' = TotalCandidates(candidates)
    /\ iterOpen' = Cardinality(Unknowns(value'))
    /\ UNCHANGED << candidates, initial, leftovers, entry, gchanged, hchanged,
                    changed, result >>
    /\ UNCHANGED << bitVars, asmVars >>

\* Guess with the loop left after its first candidate.
GuessFirstOnly ==
    /\ pc = "try"
    /\ \E c \in Top.cands :
          /\ value' = SetValueV(value, Top.best_tile, c)
          /\ candidates' = SetValueC(candidates, Top.best_tile, c)
          /\ stack' = [stack EXCEPT ![Len(stack)].cands = {}]
    /\ pc' = "naked"
    /\ gi' = 1
    /\ iterCands' = TotalCandidates(candidates')
    /\ iterOpen' = Cardinality(Unknowns(value'))
    /\ UNCHANGED << initial, leftovers, entry, gchanged, hchanged, changed,
                    result >>
    /\ UNCHANGED << bitVars, asmVars >>

\* solve, lines 81-83: the next candidate is set and solve is called again.
Guess ==
    /\ pc = "try"
    /\ \E c \in Top.cands :
          /\ value' = SetValueV(value, Top.best_tile, c)
          /\ candidates' = SetValueC(candidates, Top.best_tile, c)
          /\ stack' = [stack EXCEPT ![Len(stack)].cands = @ \ {c}]
    /\ pc' = "naked"
    /\ gi' = 1
    /\ iterCands' = TotalCandidates(candidates')
    /\ iterOpen' = Cardinality(Unknowns(value'))
    /\ UNCHANGED << initial, leftovers, entry, gchanged, hchanged, changed,
                    result >>
    /\ UNCHANGED << bitVars, asmVars >>

\* solve, line 88: every candidate failed.
Exhausted ==
    /\ pc = "try"
    /\ Top.cands = {}
    /\ stack' = Pop
    /\ pc' = "ret"
    /\ result' = FALSE
    /\ UNCHANGED << value, candidates, initial, gi, leftovers, entry,
                    gchanged, hchanged, changed, iterCands, iterOpen >>
    /\ UNCHANGED << bitVars, asmVars >>

\* ReturnTrue with the test of line 83 lost: the board is put back and the
\* next candidate is tried although the inner call returned True.
ReturnTrueTriesOn ==
    /\ pc = "ret"
    /\ stack # << >>
    /\ result = TRUE
    /\ value' = SetTilesV(Top.save)
    /\ \E fromScratch \in BOOLEAN :
          candidates' = SetTilesC(SetTilesV(Top.save), fromScratch)
    /\ pc' = "try"
    /\ UNCHANGED << initial, gi, leftovers, entry, gchanged, hchanged,
                    changed, iterCands, iterOpen, stack, result >>
    /\ UNCHANGED << bitVars, asmVars >>

\* solve, lines 83-84: the inner call returned True.
ReturnTrue ==
    /\ pc = "ret"
    /\ stack # << >>
    /\ result = TRUE
    /\ stack' = Pop
    /\ UNCHANGED << value, candidates, initial, pc, gi, leftovers, entry,
                    gchanged, hchanged, changed, iterCands, iterOpen, result >>
    /\ UNCHANGED << bitVars, asmVars >>

\* Restore without the call of set_tiles: the failed branch's board is kept.
RestoreSkipped ==
    /\ pc = "ret"
    /\ stack # << >>
    /\ result = FALSE
    /\ pc' = "try"
    /\ UNCHANGED << value, candidates, initial, gi, leftovers, entry,
                    gchanged, hchanged, changed, iterCands, iterOpen, stack, result >>
    /\ UNCHANGED << bitVars, asmVars >>

\* solve, lines 85-86: the inner call returned False; board.set_tiles(save).
Restore ==
    /\ pc = "ret"
    /\ stack # << >>
    /\ result = FALSE
    /\ value' = SetTilesV(Top.save)
    /\ \E fromScratch \in BOOLEAN :
          candidates' = SetTilesC(SetTilesV(Top.save), fromScratch)
    /\ pc' = "try"
    /\ UNCHANGED << initial, gi, leftovers, entry, gchanged, hchanged,
                    changed, iterCands, iterOpen, stack, result >>
    /\ UNCHANGED << bitVars, asmVars >>

\* The outermost solve returns to its caller.
Finish ==
    /\ pc = "ret"
    /\ stack = << >>
    /\ pc' = "done"
    /\ UNCHANGED << value, candidates, initial, gi, leftovers, entry,
                    gchanged, hchanged, changed, iterCands, iterOpen, stack, result >>
    /\ UNCHANGED << bitVars, asmVars >>

Next ==
    \/ NakedStep
    \/ HiddenValue
    \/ HiddenReturn
    \/ SolveCheck
    \/ Guess
    \/ Exhausted
    \/ ReturnTrue
    \/ Restore
    \/ Finish

Spec == Init /\ [][Next]_vars

\* ------------------------------------------------------- grids as puzzles

\* Two different tiles share a row, a column or a block.
SameGroup(t, u) ==
    /\ t # u
    /\ \/ RowOf(t) = RowOf(u)
       \/ ColOf(t) = ColOf(u)
       \/ /\ RowOf(t) \div ROOT = RowOf(u) \div ROOT
          /\ ColOf(t) \div ROOT = ColOf(u) \div ROOT

\* No digit is held twice in a row, a column or a block.
NoClash(grid) ==
    \A t, u \in Tiles :
        (SameGroup(t, u) /\ grid[t] # UNKNOWN) => grid[t] # grid[u]

\* Every tile holds a digit and no row, column or block holds one twice.
ValidGrid(grid) == (\A t \in Tiles : grid[t] \in CHOICES) /\ NoClash(grid)

\* The open tiles from t on can be given digits that clash with nothing.
RECURSIVE Completable(_, _)
Completable(grid, t) ==
    IF t > NTILES THEN TRUE
    ELSE IF grid[t] # UNKNOWN THEN Completable(grid, t + 1)
    ELSE \E d \in CHOICES :
            /\ \A u \in Tiles : SameGroup(t, u) => grid[u] # d
            /\ Completable([grid EXCEPT ![t] = d], t + 1)

HasCompletion(grid) == NoClash(grid) /\ Completable(grid, 1)

\* ------------------------------------------------------------- BitField

WORD_SIZE == 32

\* Bit p of the int x.
Bit(x, p) == IF x.neg THEN p \notin x.bits ELSE p \in x.bits

\* x + 1 for a non-negative x: the 1 bits below the lowest 0 bit become 0 and
\* that bit becomes 1.
PlusOne(x) ==
    LET low == CHOOSE k \in 0..(Cardinality(x.bits)) :
                   /\ k \notin x.bits
                   /\ \A j \in 0..(k - 1) : j \in x.bits
    IN  IntOf(FALSE, (x.bits \ (0..(low - 1))) \cup {low})

\* x << n.
ShiftLeft(x, n) ==
    IF x.neg
    THEN IntOf(TRUE, {b + n : b \in x.bits} \cup (0..(n - 1)))
    ELSE IntOf(FALSE, {b + n : b \in x.bits})

\* x >> n.
ShiftRight(x, n) == IntOf(x.neg, {b - n : b \in {c \in x.bits : c >= n}})

\* ~x.
Invert(x) == IntOf(~x.neg, x.bits)

\* x & y.
BitAnd(x, y) ==
    IF x.neg /\ y.neg THEN IntOf(TRUE, x.bits \cup y.bits)
    ELSE IF x.neg THEN IntOf(FALSE, y.bits \ x.bits)
    ELSE IF y.neg THEN IntOf(FALSE, x.bits \ y.bits)
    ELSE IntOf(FALSE, x.bits \cap y.bits)

\* x | y.
BitOr(x, y) ==
    IF x.neg /\ y.neg THEN IntOf(TRUE, x.bits \cap y.bits)
    ELSE IF x.neg THEN IntOf(TRUE, x.bits \ y.bits)
    ELSE IF y.neg THEN IntOf(TRUE, y.bits \ x.bits)
    ELSE IntOf(FALSE, x.bits \cup y.bits)

\* BitField.__init__, line 39.
Width(from, to) == 1 + to - from

\* The non-negative ints of at most WORD_SIZE + 1 bits.
Masks == [neg : {FALSE}, bits : SUBSET (0..WORD_SIZE)]

\* create_mask, lines 56-58: the loop from mask s.mask on, with s.rounds
\* rounds to go.
MaskLoop[s \in [mask : Masks, rounds : 0..(WORD_SIZE + 1)]] ==
    IF s.rounds = 0 THEN s.mask
    ELSE MaskLoop[[mask |-> PlusOne(ShiftLeft(s.mask, 1)),
                   rounds |-> s.rounds - 1]]

\* create_mask, lines 51-58.
CreateMask(width) == MaskLoop[[mask |-> Zero, rounds |-> width]]

\* insert with "new_word = word": the old contents of the field stay.
InsertUnerased(m, from, val, w) ==
    LET new_word == w
        adjust == BitAnd(m, val)
        shifted_val == ShiftLeft(adjust, from)
    IN  BitOr(new_word, shifted_val)

\* BitField.insert, lines 65-73.
Insert(m, from, val, w) ==
    LET shifted_mask == ShiftLeft(m, from)
        eraser == Invert(shifted_mask)
        new_word == BitAnd(w, eraser)
        adjust == BitAnd(m, val)
        shifted_val == ShiftLeft(adjust, from)
    IN  BitOr(new_word, shifted_val)

\* BitField.extract, lines 80-83.
Extract(m, from, w) ==
    LET shifted_word == ShiftRight(w, from)
    IN  BitAnd(shifted_word, m)

\* The words and field values the runs are given: 0, 0xaa00aa00, 0xffffffff
\* and 0x12345678; 0, 1, 0xf, 0x155, 0x80000000 and -1.
Words ==
    { Zero,
      IntOf(FALSE, {9, 11, 13, 15, 25, 27, 29, 31}),
      IntOf(FALSE, 0..(WORD_SIZE - 1)),
      IntOf(FALSE, {3, 4, 5, 6, 9, 10, 12, 14, 18, 20, 21, 25, 28}) }

FieldValues ==
    { Zero,
      IntOf(FALSE, {0}),
      IntOf(FALSE, 0..3),
      IntOf(FALSE, {0, 2, 4, 6, 8}),
      IntOf(FALSE, {WORD_SIZE - 1}),
      IntOf(TRUE, {}) }

\* The sudoku solver is not running: a solved board, and solve has returned.
SdkIdle ==
    /\ initial = BaseGrid
    /\ value = BaseGrid
    /\ candidates = [t \in Tiles |-> NewCandidates(BaseGrid[t])]
    /\ pc = "done"
    /\ gi = 0
    /\ leftovers = {}
    /\ entry = NoCall
    /\ gchanged = FALSE
    /\ hchanged = FALSE
    /\ changed = FALSE
    /\ iterCands = NTILES
    /\ iterOpen = 0
    /\ stack = << >>
    /\ result = TRUE

BitInit == SdkIdle /\ BitIdle /\ AsmIdle

\* BitField(from_bit, to_bit), lines 31-47, for the bounds the asserts allow.
BitFieldNew ==
    /\ bpc = "idle"
    /\ \E from \in 0..(WORD_SIZE - 1) : \E to \in from..WORD_SIZE :
          /\ from_bit' = from
          /\ to_bit' = to
          /\ mask' = CreateMask(Width(from, to))
    /\ bpc' = "made"
    /\ UNCHANGED << word, field_val, inserted, extracted >>
    /\ UNCHANGED << sdkVars, asmVars >>

\* insert(field_val, word), lines 60-73.
BitInsert ==
    /\ bpc = "made"
    /\ \E val \in FieldValues : \E w \in Words :
          /\ field_val' = val
          /\ word' = w
          /\ inserted' = Insert(mask, from_bit, val, w)
    /\ bpc' = "inserted"
    /\ UNCHANGED << from_bit, to_bit, mask, extracted >>
    /\ UNCHANGED << sdkVars, asmVars >>

\* extract(word) of the word insert returned, lines 76-83.
BitExtract ==
    /\ bpc = "inserted"
    /\ extracted' = Extract(mask, from_bit, inserted)
    /\ bpc' = "extracted"
    /\ UNCHANGED << from_bit, to_bit, mask, word, field_val, inserted >>
    /\ UNCHANGED << sdkVars, asmVars >>

BitNext == BitFieldNew \/ BitInsert \/ BitExtract

BitSpec == BitInit /\ [][BitNext]_vars

\* ------------------------------------------------------ assembler pass 1

ERROR_LIMIT == 5

\* fields["label"] of a line without a label ("if fields['label']" is false).
NoLabel == ""

\* A source line: its label, its opcode ("" when the line has none) and the
\* shape of what follows the opcode.
LineOf(label, opcode, operands) ==
    [label |-> label, opcode |-> opcode, operands |-> operands]

\* ASM_FULL_PAT, lines 144-163: an alphabetic opcode and three registers.
FullPat(line) == line.opcode # "" /\ line.operands = "regs"

\* ASM_DATA_PAT, lines 171-189: DATA and at most a value.
DataPat(line) == line.opcode = "DATA" /\ line.operands \in {"none", "value"}

\* ASM_COMMENT_PAT, lines 127-138: nothing but a label and a comment.
CommentPat(line) == line.opcode = "" /\ line.operands = "none"

\* ASM_SYMBOLIC_PAT, lines 193-211: JUMP, STORE or LOAD and a symbol.
SymbolicPat(line) ==
    /\ line.opcode \in {"JUMP", "STORE", "LOAD"}
    /\ line.operands \in {"symbol", "reg_symbol"}

\* parse_line, lines 229-237: the kind of the first pattern of PATTERNS that
\* matches, or the SyntaxError.
ParseLine(line) ==
    IF FullPat(line) THEN "FULL"
    ELSE IF DataPat(line) THEN "DATA"
    ELSE IF CommentPat(line) THEN "COMMENT"
    ELSE IF SymbolicPat(line) THEN "SYMBOLIC"
    ELSE "SyntaxError"

\* The lines build_table is given: every list of at most MaxLines lines out
\* of AsmLines, and every list of at most MaxRepeats lines out of
\* RepeatLines.
MaxLines == 3

MaxRepeats == 8

Labels == {"a", "b"}

Bodies ==
    { LineOf(NoLabel, "", "none"),
      LineOf(NoLabel, "ADD", "regs"),
      LineOf(NoLabel, "DATA", "value"),
      LineOf(NoLabel, "JUMP", "symbol"),
      LineOf(NoLabel, "ADD", "symbol") }

AsmLines ==
    {LineOf(lab, body.opcode, body.operands) :
        lab \in Labels \cup {NoLabel}, body \in Bodies}

RepeatLines == {LineOf("a", "ADD", "regs"), LineOf("b", "", "none")}

AsmInputs ==
    UNION {[1..n -> AsmLines] : n \in 0..MaxLines}
        \cup UNION {[1..n -> RepeatLines] : n \in 0..MaxRepeats}

AsmInit == SdkIdle /\ BitIdle /\ AsmIdle

\* build_table(lines), lines 254-256.
BuildTable ==
    /\ apc = "idle"
    /\ lines' \in AsmInputs
    /\ lnum' = 0
    /\ address' = 0
    /\ symbol_table' = << >>
    /\ error_count' = 0
    /\ apc' = "loop"
    /\ UNCHANGED << sdkVars, bitVars >>

\* symbol_table[lab] = address.
Store(table, lab, addr) ==
    [k \in DOMAIN table \cup {lab} |-> IF k = lab THEN addr ELSE table[k]]

\* AsmLine without the test "lab in symbol_table": a repeated label takes
\* the address of its last line.
AsmLineOverwrites ==
    /\ apc = "loop"
    /\ lnum < Len(lines)
    /\ LET line == lines[lnum + 1]
           kind == ParseLine(line)
           errors == IF kind = "SyntaxError" THEN error_count + 1
                                             ELSE error_count
       IN  /\ symbol_table' =
                 IF kind # "SyntaxError" /\ line.label # NoLabel
                 THEN Store(symbol_table, line.label, address)
                 ELSE symbol_table
           /\ address' = IF kind \notin {"SyntaxError", "COMMENT"}
                         THEN address + 1 ELSE address
           /\ error_count' = errors
           /\ apc' = IF errors > ERROR_LIMIT THEN "exited" ELSE "loop"
    /\ lnum' = lnum + 1
    /\ UNCHANGED lines
    /\ UNCHANGED << sdkVars, bitVars >>

\* build_table, lines 257-283: one round of the loop, with the test of
\* error_count that ends it.
AsmLine ==
    /\ apc = "loop"
    /\ lnum < Len(lines)
    /\ LET line == lines[lnum + 1]
           kind == ParseLine(line)
           duplicate == /\ kind # "SyntaxError"
                        /\ line.label # NoLabel
                        /\ line.label \in DOMAIN symbol_table
           errors == IF kind = "SyntaxError" \/ duplicate
                     THEN error_count + 1 ELSE error_count
       IN  /\ symbol_table' =
                 IF kind # "SyntaxError" /\ line.label # NoLabel /\ ~duplicate
                 THEN Store(symbol_table, line.label, address)
                 ELSE symbol_table
           /\ address' = IF kind \notin {"SyntaxError", "COMMENT"}
                         THEN address + 1 ELSE address
           /\ error_count' = errors
           /\ apc' = IF errors > ERROR_LIMIT THEN "exited" ELSE "loop"
    /\ lnum' = lnum + 1
    /\ UNCHANGED lines
    /\ UNCHANGED << sdkVars, bitVars >>

\* build_table, line 284: the loop is over and the table is returned.
AsmReturn ==
    /\ apc = "loop"
    /\ lnum = Len(lines)
    /\ apc' = "returned"
    /\ UNCHANGED << lines, lnum, address, symbol_table, error_count >>
    /\ UNCHANGED << sdkVars, bitVars >>

AsmNext == BuildTable \/ AsmLine \/ AsmReturn

AsmSpec == AsmInit /\ [][AsmNext]_vars

\* ------------------------------------------------------- puzzle helpers

\* The valid complete grids that fill the open tiles of grid from t on.
RECURSIVE Completions(_, _)
Completions(grid, t) ==
    IF t > NTILES THEN {grid}
    ELSE IF grid[t] # UNKNOWN THEN Completions(grid, t + 1)
    ELSE UNION {Completions([grid EXCEPT ![t] = d], t + 1) :
                  d \in {e \in CHOICES :
                            \A u \in Tiles : SameGroup(t, u) => grid[u] # e}}

\* The valid complete grids of each input grid.
SolutionsOf ==
    [grid \in InputGrids |->
        IF NoClash(grid) THEN Completions(grid, 1) ELSE {}]

\* The complete grid S agrees with every assigned tile and has, at each
\* UNKNOWN tile, a digit among the tile's candidates.
Compatible(S, vals, cands) ==
    \A t \in Tiles :
        IF vals[t] # UNKNOWN THEN S[t] = vals[t] ELSE S[t] \in cands[t]

\* Two tiles of one row hold the same digit.
RowDuplicate(grid) ==
    \E r \in 0..(NROWS - 1) : \E c, d \in 0..(NROWS - 1) :
        /\ c < d
        /\ grid[TileAt(r, c)] # UNKNOWN
        /\ grid[TileAt(r, c)] = grid[TileAt(r, d)]

\* ----------------------------------------------------------------- claims

\* C1: whenever solve returns True, every tile holds a digit and no row,
\* column or block holds a digit twice: is_solved() and is_consistent() hold.
C1_SolveSound ==
    (pc = "done" /\ result)
        => /\ ValidGrid(value)
           /\ IsSolved(value)
           /\ IsConsistent(value, candidates)

\* C2: solve returns True on every grid that has a valid completion.
C2_SolveComplete == (pc = "done" /\ HasCompletion(initial)) => result

\* A grid with a completion on which propagation stalled twice: True is on its
\* way up through two guessing calls.
C2_Witness ==
    pc = "ret" /\ result /\ Len(stack) >= 2 /\ HasCompletion(initial)

\* C3: on a grid with a digit twice in one row, is_consistent() is false and
\* solve returns False.
C3_RowDuplicateRejected ==
    RowDuplicate(initial)
        => /\ ~IsConsistent(value, candidates)
           /\ pc = "done" => ~result

\* C4: before every set_value of a guess, the 81 values are the snapshot the
\* call took after propagate, and the chosen tile is UNKNOWN.
C4_TryFromSnapshot ==
    pc = "try"
        => /\ AsList(value) = Top.save
           /\ value[Top.best_tile] = UNKNOWN

\* A guess has failed and the next candidate is about to be tried.
C4_Witness ==
    /\ pc = "try"
    /\ Top.cands # {}
    /\ Top.cands # CHOICES \ UsedAround(value, Top.best_tile)

\* C5: a tile that holds a digit has that digit as its only candidate.
C5_TileInvariant ==
    \A t \in Tiles : value[t] # UNKNOWN => candidates[t] = {value[t]}

\* Inside a guess, with a tile filled in that the grid left open.
C5_Witness ==
    /\ pc = "hidden"
    /\ stack # << >>
    /\ \E t \in Tiles : initial[t] = UNKNOWN /\ value[t] # UNKNOWN

\* C6 as stated: once is_consistent() is false it stays false through every
\* later step of propagate and solve, the set_tiles restores included.
C6_ConsistencyNeverRecovers ==
    [][~IsConsistent(value, candidates)
          => ~IsConsistent(value', candidates')]_vars

\* C6, amended: once is_consistent() is false it stays false through every
\* later step of propagate and solve other than a set_tiles restore.
C6_NeverRecoversWithoutRestore ==
    [][(~IsConsistent(value, candidates) /\ ~(pc = "ret" /\ pc' = "try"))
          => ~IsConsistent(value', candidates')]_vars

\* Inside a guess, a hidden-single pass goes on over a board that has become
\* inconsistent.
C6_Witness ==
    /\ pc = "hidden"
    /\ stack # << >>
    /\ leftovers # {}
    /\ ~IsConsistent(value, candidates)

\* The board's measure: its candidates plus its UNKNOWN tiles.
Measure == TotalCandidates(candidates) + Cardinality(Unknowns(value))

\* An iteration of propagate's loop is at its end, line 54, and reports a
\* change.
IterationReportsChange ==
    /\ pc = "hidden"
    /\ gi = NGROUPS
    /\ leftovers = {}
    /\ gchanged \/ hchanged \/ changed

\* C7 as stated: an iteration of propagate's loop that reports a change ends
\* with fewer candidates on the board than it began with.
C7_ChangeRemovesCandidate ==
    IterationReportsChange => TotalCandidates(candidates) < iterCands

\* C7, amended: an iteration of propagate's loop that reports a change ends
\* with a smaller sum of candidates and UNKNOWN tiles than it began with, and
\* inside an iteration neither the candidates nor that sum ever grow; the sum
\* is a natural number, so the loop runs finitely often.
C7_ChangeShrinksMeasure ==
    /\ IterationReportsChange => Measure < iterCands + iterOpen
    /\ pc \in {"naked", "hidden"}
          => /\ TotalCandidates(candidates) <= iterCands
             /\ Measure <= iterCands + iterOpen

\* An iteration reports a change although it removed no candidate: hidden
\* single filled a tile that had one candidate left.
C7_Witness ==
    /\ IterationReportsChange
    /\ TotalCandidates(candidates) = iterCands
    /\ Cardinality(Unknowns(value)) < iterOpen

\* What is left of propagate: twice the measure, plus one while the running
\* iteration has a change to report.
PropagateLeft(p, vals, cands, flag) ==
    IF p \in {"naked", "hidden"}
    THEN 2 * (TotalCandidates(cands) + Cardinality(Unknowns(vals)))
            + (IF flag THEN 1 ELSE 0)
    ELSE 0

\* The steps left in the running iteration of propagate's loop.
StepsLeft(p, g, left) ==
    IF p = "naked"
    THEN 2 + NGROUPS * (NROWS + 1) + (NGROUPS - g)
    ELSE IF p = "hidden"
    THEN 1 + (NGROUPS - g) * (NROWS + 1) + Cardinality(left)
    ELSE 0

\* What is left of the innermost solve call, as a number above every count of
\* candidates while it propagates and below every one when it has returned.
CallLeft(p) ==
    IF p \in {"naked", "hidden", "post"} THEN NROWS + 3
    ELSE IF p = "ret" THEN 1
    ELSE 0

\* The rank of a state: the candidates each guessing call has yet to try,
\* outermost first, then what is left of the innermost call.
RankOf(st, p, vals, cands, g, left, flag) ==
    [k \in 1..Len(st) |-> Cardinality(st[k].cands) + 2]
        \o << CallLeft(p), PropagateLeft(p, vals, cands, flag),
              StepsLeft(p, g, left) >>

Rank ==
    RankOf(stack, pc, value, candidates, gi, leftovers,
           gchanged \/ hchanged \/ changed)

RankAfter ==
    RankOf(stack', pc', value', candidates', gi', leftovers',
           gchanged' \/ hchanged' \/ changed')

\* Sequence a is below sequence b in the lexicographic order.
LexLess(a, b) ==
    \E i \in 1..Len(a) :
        /\ i <= Len(b)
        /\ a[i] < b[i]
        /\ \A j \in 1..(i - 1) : a[j] = b[j]

\* The step lowers the rank.
RankLowered == \E a \in {RankAfter} : \E b \in {Rank} : LexLess(a, b)

\* The guessing calls, outermost first, each hold fewer UNKNOWN tiles than
\* their caller did when it guessed, and so does the board of the call that
\* is running.
DeeperIsFuller ==
    /\ \A k \in 1..(Len(stack) - 1) :
          Cardinality(Unknowns(SetTilesV(stack[k + 1].save)))
              < Cardinality(Unknowns(SetTilesV(stack[k].save)))
    /\ (stack # << >> /\ pc \in {"naked", "hidden", "post"})
          => Cardinality(Unknowns(value))
                < Cardinality(Unknowns(SetTilesV(Top.save)))

\* C8: solve terminates and its guessing calls never nest deeper than the
\* grid has UNKNOWN tiles: every call is entered with more tiles assigned than
\* its caller had when it guessed, the tile to guess is always found, and
\* every step lowers the rank, which is well-founded.
C8_SolveTerminates ==
    /\ [](/\ pc # "error"
          /\ Len(stack) <= Cardinality(Unknowns(initial))
          /\ DeeperIsFuller)
    /\ [][RankLowered]_vars

\* Three guessing calls are nested and the innermost is about to guess.
C8_Witness == pc = "try" /\ Len(stack) >= 3 /\ Top.cands # {}

\* The grid has one UNKNOWN cell, and its row, column and block hold the other
\* eight digits.
OneForcedCell(grid) ==
    /\ Cardinality(Unknowns(grid)) = 1
    /\ \A t \in Unknowns(grid) : Cardinality(UsedAround(grid, t)) = NROWS - 1

\* naked_single has been applied to every group and hidden_single is about to
\* start, for the first time in this run.
NakedPassOver ==
    /\ pc = "hidden"
    /\ gi = 1
    /\ leftovers = Leftovers(value, 1)
    /\ ~gchanged
    /\ value = initial

\* C9 as stated: on a grid with one UNKNOWN cell that has the other eight
\* digits around it, the board is solved once naked_single_constrain has been
\* applied to the groups, before any hidden single.
C9_NakedSingleAloneSolves ==
    (OneForcedCell(initial) /\ NakedPassOver) => IsSolved(value)

\* C9, amended: on such a grid with no digit twice in a row, column or block,
\* naked_single_constrain on the groups narrows the open cell to the missing
\* digit, the hidden single of the same propagate assigns it, and solve
\* returns True with the board solved and without a guess.
C9_PropagateSolvesForcedCell ==
    (OneForcedCell(initial) /\ NoClash(initial))
        => /\ stack = << >>
           /\ pc \notin {"try", "error"}
           /\ NakedPassOver
                 => \A t \in Unknowns(initial) :
                       candidates[t] = CHOICES \ UsedAround(initial, t)
           /\ pc \in {"post", "ret", "done"}
                 => /\ IsSolved(value)
                    /\ ValidGrid(value)
                    /\ \A t \in Tiles \ Unknowns(initial) :
                          value[t] = initial[t]
           /\ pc = "done" => result

\* solve has returned True on a grid with one forced cell.
C9_Witness ==
    /\ OneForcedCell(initial)
    /\ NoClash(initial)
    /\ pc = "done"
    /\ result
    /\ IsSolved(value)

\* hidden_single_constrain has examined one more digit of its leftovers.
DigitExamined ==
    /\ pc = "hidden"
    /\ pc' = "hidden"
    /\ gi' = gi
    /\ leftovers' # leftovers

\* C10: hidden_single_constrain examines the digits no member tile holds; a
\* digit that exactly one member tile has among its candidates when it is
\* examined is assigned to that tile; a tile that holds a digit keeps it; and
\* the call returns True iff it assigned a digit.
C10_HiddenSingleConstrain ==
    /\ [](pc = "hidden"
            => /\ leftovers \subseteq CHOICES \ {entry[t] : t \in Members(gi)}
               /\ leftovers = {} => (gchanged <=> value # entry))
    /\ [][DigitExamined
            => /\ \E v \in leftovers :
                    /\ leftovers' = leftovers \ {v}
                    /\ \A t \in Members(gi) :
                          {u \in Members(gi) : v \in candidates[u]} = {t}
                              => value'[t] = v
               /\ \A t \in Tiles :
                     value[t] # UNKNOWN => value'[t] = value[t]]_vars

\* The row 1 2 3 4 5 _ 7 8 9 has got 6 in its open cell from
\* hidden_single_constrain, which is about to return True.
C10_Witness ==
    /\ \A c \in 0..(NROWS - 1) :
          initial[TileAt(0, c)] = (IF c = 5 THEN UNKNOWN ELSE c + 1)
    /\ pc = "hidden"
    /\ gi = 1
    /\ leftovers = {}
    /\ gchanged
    /\ entry[TileAt(0, 5)] = UNKNOWN
    /\ value[TileAt(0, 5)] = 6

\* Two tiles of the group hold the same digit.
SharesValue(vals, g) ==
    \E j, k \in 1..NROWS :
        /\ j < k
        /\ vals[Groups[g][k]] # UNKNOWN
        /\ vals[Groups[g][j]] = vals[Groups[g][k]]

\* The tiles of the group that repeat a digit held earlier in the group.
Repeats(vals, g) ==
    {k \in 1..NROWS :
        /\ vals[Groups[g][k]] # UNKNOWN
        /\ \E j \in 1..(k - 1) : vals[Groups[g][j]] = vals[Groups[g][k]]}

\* C11: duplicates() has one entry for each tile that repeats a digit held
\* earlier in the group, and is empty iff no two tiles share a digit.
C11_DuplicatesReported ==
    \A g \in 1..NGROUPS :
        /\ Len(Duplicates(value, g)) = Cardinality(Repeats(value, g))
        /\ Duplicates(value, g) = << >> <=> ~SharesValue(value, g)

C13_NakedSingleIdempotent ==
    pc = "naked" =>
        LET once == NakedSingleConstrain(value, candidates, gi)
        IN  NakedSingleConstrain(value, once, gi) = once

\* naked_single_constrain has just removed candidates from tiles of a group,
\* and a second call on that group would remove none.
C13_Witness ==
    /\ pc = "naked"
    /\ gi > 1
    /\ changed
    /\ iterCands > TotalCandidates(candidates)
    /\ NakedSingleConstrain(value, candidates, gi - 1) = candidates

\* The board was unsolved and consistent after propagate, and solve has gone
\* on to its guesses.
ReachesGuess == pc = "post" /\ pc' = "try"

\* The tile solve has just selected is UNKNOWN and has a candidate.
SelectionFound ==
    LET frame == stack'[Len(stack')] IN
    /\ Len(stack') = Len(stack) + 1
    /\ frame.best_tile \in Tiles
    /\ value[frame.best_tile] = UNKNOWN
    /\ frame.cands = candidates[frame.best_tile]
    /\ frame.cands # {}

\* C14: whenever solve reaches the guess step, the selection finds an UNKNOWN
\* tile with a non-empty candidate set, and no error state is reachable in
\* propagate or solve.
C14_NoErrorState ==
    [](pc # "error") /\ [][ReachesGuess => SelectionFound]_vars

\* solve has selected a tile on an unsolved consistent board, inside an
\* earlier guess, and has not yet tried a candidate of it.
C14_Witness ==
    /\ pc = "try"
    /\ Len(stack) = 2
    /\ Top.best_tile # None
    /\ value[Top.best_tile] = UNKNOWN
    /\ Top.cands = candidates[Top.best_tile]
    /\ Cardinality(Top.cands) >= 2

\* Some tile of the group has no candidate.
SomeEmpty(cands, g) == \E t \in Members(g) : cands[t] = {}

\* The candidates of the group's tiles do not make up all of CHOICES.
NotCovered(cands, g) == UNION {cands[t] : t \in Members(g)} # CHOICES

\* C15: where solve is about to call is_consistent, Group.is_consistent() is
\* false exactly when a tile of the group has no candidate, two tiles share an
\* assigned value, or the candidate sets do not cover 1..9; and
\* Board.is_consistent() is true iff all 27 groups are consistent.
C15_IsConsistentExactly ==
    pc = "post" =>
        /\ \A g \in 1..NGROUPS :
              GroupIsConsistent(value, candidates, g)
                  <=> ~(\/ SomeEmpty(candidates, g)
                        \/ SharesValue(value, g)
                        \/ NotCovered(candidates, g))
        /\ IsConsistent(value, candidates)
              <=> \A g \in 1..NGROUPS : GroupIsConsistent(value, candidates, g)

\* solve is about to call is_consistent on a board on which one group fails
\* by a shared value alone and another group is consistent.
C15_Witness ==
    /\ pc = "post"
    /\ \E g \in 1..NGROUPS :
          /\ SharesValue(value, g)
          /\ ~SomeEmpty(candidates, g)
          /\ ~NotCovered(candidates, g)
    /\ \E g \in 1..NGROUPS : GroupIsConsistent(value, candidates, g)

\* A step of naked_single_constrain or hidden_single_constrain keeps every
\* valid complete grid that fitted the board before it.
TacticKeepsSolutions ==
    pc \in {"naked", "hidden"} =>
        \A S \in SolutionsOf[initial] :
            Compatible(S, value, candidates)
                => Compatible(S, value', candidates')

\* C18: a valid complete grid that agrees with the assigned tiles and lies
\* within the candidates of the UNKNOWN tiles still does so after every
\* naked_single_constrain and hidden_single_constrain step of propagate.
C18_PropagationKeepsSolutions == [][TacticKeepsSolutions]_vars

\* Inside a guess, hidden single has just assigned a tile and naked single
\* has removed candidates, and a valid complete grid still fits the board.
C18_Witness ==
    /\ pc = "hidden"
    /\ gchanged
    /\ Len(stack) >= 1
    /\ iterCands > TotalCandidates(candidates)
    /\ \E S \in SolutionsOf[initial] : Compatible(S, value, candidates)

\* The tiles that share a row, a column or a block with t.
Peers(t) == {u \in Tiles : SameGroup(t, u)}

\* hidden_single_constrain gives a tile a digit in this step, and no tile of
\* its row, column or block holds that digit.
AssignsNoDuplicate ==
    \A t \in Tiles :
        (pc = "hidden" /\ value'[t] # value[t])
            => \A u \in Peers(t) : value[u] # value'[t]

\* C19: on a board that was consistent when the hidden-single pass began,
\* hidden_single_constrain never gives a tile a digit that a tile of its row,
\* column or block already holds.  (propagate begins the pass only on a
\* consistent board.)
C19_HiddenNeverDuplicates == [][AssignsNoDuplicate]_vars

\* C19, amended: while some valid complete grid agrees with the assigned tiles
\* and lies within the candidates, hidden_single_constrain never gives a tile
\* a digit that a tile of its row, column or block already holds.
C19_HiddenNoDuplicateWhileSolvable ==
    [][(\E S \in SolutionsOf[initial] : Compatible(S, value, candidates))
          => AssignsNoDuplicate]_vars

\* hidden_single_constrain has given a digit to a tile of its group on a board
\* that a valid complete grid fits, and no peer of the tile holds the digit.
C19_Witness ==
    /\ pc = "hidden"
    /\ entry # NoCall
    /\ \E S \in SolutionsOf[initial] : Compatible(S, value, candidates)
    /\ \E t \in Members(gi) :
          /\ entry[t] = UNKNOWN
          /\ value[t] # UNKNOWN
          /\ \A u \in Peers(t) : value[u] # value[t]

\* Tile t comes before tile u in row-major order.
RowMajorBefore(t, u) ==
    \/ RowOf(t) < RowOf(u)
    \/ RowOf(t) = RowOf(u) /\ ColOf(t) < ColOf(u)

\* Tile b is UNKNOWN, no UNKNOWN tile has fewer candidates, and no UNKNOWN
\* tile with as few candidates comes before it.
FirstOfFewest(vals, cands, b) ==
    /\ b \in Tiles
    /\ vals[b] = UNKNOWN
    /\ \A u \in Unknowns(vals) :
          /\ Cardinality(cands[b]) <= Cardinality(cands[u])
          /\ Cardinality(cands[u]) = Cardinality(cands[b])
                => ~RowMajorBefore(u, b)

\* C20: the tile solve chooses for guessing is an UNKNOWN tile with the fewest
\* candidates among the UNKNOWN tiles, and is the first of those in row-major
\* order.
C20_GuessTileSelection ==
    [][ReachesGuess =>
          FirstOfFewest(value, candidates, stack'[Len(stack')].best_tile)]_vars

\* solve has just chosen a tile; a later UNKNOWN tile has as few candidates
\* and an earlier UNKNOWN tile has more.
C20_Witness ==
    /\ pc = "try"
    /\ Top.cands = candidates[Top.best_tile]
    /\ value[Top.best_tile] = UNKNOWN
    /\ \E u \in Unknowns(value) :
          /\ RowMajorBefore(Top.best_tile, u)
          /\ Cardinality(candidates[u]) = Cardinality(Top.cands)
    /\ \E u \in Unknowns(value) :
          /\ RowMajorBefore(u, Top.best_tile)
          /\ Cardinality(candidates[u]) > Cardinality(Top.cands)

\* v modulo 2^width: the low width bits of v.
ModPow2(v, width) == IntOf(FALSE, {p \in 0..(width - 1) : Bit(v, p)})

\* The bit positions of the field.
FieldBits == from_bit..to_bit

\* C16: extract(insert(v, w)) is v modulo 2^width, and insert(v, w) has the
\* bits of w at every position outside the field.
C16_InsertExtract ==
    bpc = "extracted" =>
        /\ extracted = ModPow2(field_val, Width(from_bit, to_bit))
        /\ inserted.neg = word.neg
        /\ inserted.bits \ FieldBits = word.bits \ FieldBits
        /\ \A p \in 0..WORD_SIZE :
              p \notin FieldBits => (Bit(inserted, p) <=> Bit(word, p))

\* 0xf has been inserted into bits 4..7 of 0xaa00aa00, which gave 0xaa00aaf0,
\* and extracted again.
C16_Witness ==
    /\ bpc = "extracted"
    /\ from_bit = 4
    /\ to_bit = 7
    /\ word = IntOf(FALSE, {9, 11, 13, 15, 25, 27, 29, 31})
    /\ field_val = IntOf(FALSE, 0..3)
    /\ inserted = IntOf(FALSE, {4, 5, 6, 7, 9, 11, 13, 15, 25, 27, 29, 31})
    /\ extracted = field_val

\* Every line of the list matches one of the patterns.
AllValid(src) == \A i \in 1..Len(src) : ParseLine(src[i]) # "SyntaxError"

\* The lines among the first n that are not comment lines.
NonComment(src, n) == {i \in 1..n : ParseLine(src[i]) # "COMMENT"}

\* The labels on the first n lines.
LabelsIn(src, n) == {src[i].label : i \in 1..n} \ {NoLabel}

\* The first line that carries the label.
FirstLine(src, lab) ==
    CHOOSE i \in 1..Len(src) :
        /\ src[i].label = lab
        /\ \A j \in 1..(i - 1) : src[j].label # lab

\* The lines among the first n whose label is on an earlier line too.
RepeatedIn(src, n) ==
    {i \in 1..n :
        /\ src[i].label # NoLabel
        /\ \E j \in 1..(i - 1) : src[j].label = src[i].label}

\* The table and the count are those of the first n lines: each label is at
\* the number of non-comment lines before its first line, and each repeat of
\* a label has counted as one error.
TableOf(src, n) ==
    /\ DOMAIN symbol_table = LabelsIn(src, n)
    /\ \A lab \in LabelsIn(src, n) :
          symbol_table[lab]
              = Cardinality(NonComment(src, FirstLine(src, lab) - 1))
    /\ error_count = Cardinality(RepeatedIn(src, n))
    /\ address = Cardinality(NonComment(src, n))

\* C17: for every list of valid lines, build_table ends with each label of
\* the list at the number of non-comment lines before the label's first
\* line, and with one error counted for each repeat of a label.
C17_BuildTable ==
    (apc \in {"returned", "exited"} /\ AllValid(lines))
        => TableOf(lines, Len(lines))

\* C17, amended: the same, as long as no more than ERROR_LIMIT repeats have
\* been met; at the repeat after that build_table leaves with sys.exit and
\* the lines after it are not gone through.
C17_BuildTableWithinLimit ==
    (apc # "idle" /\ AllValid(lines)) =>
        /\ TableOf(lines, lnum)
        /\ apc = "returned" => lnum = Len(lines) /\ error_count <= ERROR_LIMIT
        /\ apc = "exited" => error_count = ERROR_LIMIT + 1
        /\ Cardinality(RepeatedIn(lines, Len(lines))) <= ERROR_LIMIT
              => apc # "exited"

\* build_table has returned for valid lines with a label on a line after a
\* comment line and an instruction, and with a repeat of a label.
C17_Witness ==
    /\ apc = "returned"
    /\ AllValid(lines)
    /\ error_count = 1
    /\ \E lab \in DOMAIN symbol_table :
          /\ symbol_table[lab] = 1
          /\ FirstLine(lines, lab) = 3

\* A solve call has returned True.
ReturnedTrue == pc \in {"ret", "done"} /\ result

\* The step returns True from the enclosing call: the board is left as it is,
\* no candidate is tried and nothing is restored.
ReturnsUpward ==
    /\ value' = value
    /\ candidates' = candidates
    /\ result'
    /\ \/ pc' = "ret" /\ stack # << >> /\ stack' = Pop
       \/ pc' = "done" /\ stack = << >> /\ stack' = stack

\* C21: once a solve call has returned True, every enclosing call returns
\* True at once, with no further set_value or set_tiles, so the board at the
\* top-level return is the one on which the innermost call saw is_solved().
C21_FirstSolutionWins ==
    /\ [](ReturnedTrue => IsSolved(value))
    /\ [][ReturnedTrue => ReturnsUpward]_vars

\* A solve call two guesses deep has returned True while the enclosing call
\* still has a candidate it has not tried.
C21_Witness ==
    /\ pc = "ret"
    /\ result
    /\ Len(stack) >= 2
    /\ Top.cands # {}
    /\ IsSolved(value)

\* propagate has returned to solve with a board that is neither solved nor
\* consistent.
UnsolvedInconsistent ==
    pc = "post" /\ ~IsSolved(value) /\ ~IsConsistent(value, candidates)

\* The call returns False: no tile is selected, nothing is set or restored.
ReturnsFalseUntouched ==
    /\ pc' = "ret"
    /\ ~result'
    /\ stack' = stack
    /\ value' = value
    /\ candidates' = candidates

\* C22: a solve call whose board is unsolved and inconsistent after propagate
\* returns False without selecting a tile and without set_value or
\* set_tiles.
C22_Pruning == [][UnsolvedInconsistent => ReturnsFalseUntouched]_vars

\* A solve call inside a guess has just returned False on an unsolved,
\* inconsistent board.
C22_Witness ==
    /\ pc = "ret"
    /\ ~result
    /\ stack # << >>
    /\ ~IsSolved(value)
    /\ ~IsConsistent(value, candidates)

\* The naked-single pass is at its last group.
NakedPassEnds == pc = "naked" /\ gi = NGROUPS

\* The hidden-single pass has finished its last group.
HiddenPassEnds == pc = "hidden" /\ gi = NGROUPS /\ leftovers = {}

\* The running iteration of propagate's loop has changed the board: naked
\* single has removed a candidate or hidden single has filled a tile.
IterationChanged ==
    \/ TotalCandidates(candidates) < iterCands
    \/ Cardinality(Unknowns(value)) < iterOpen

\* One step taken in the order of propagate's loop.
PropagateInOrder ==
    /\ pc # "naked" /\ pc' = "naked" => gi' = 1
    /\ pc = "naked" /\ gi < NGROUPS => pc' = "naked" /\ gi' = gi + 1
    /\ NakedPassEnds =>
          IF IsSolved(value') \/ ~IsConsistent(value', candidates')
          THEN pc' = "post"
          ELSE pc' = "hidden" /\ gi' = 1
    /\ pc # "naked" /\ pc' = "hidden" => pc = "hidden" /\ gi' \in {gi, gi + 1}
    /\ pc = "hidden" /\ ~HiddenPassEnds => pc' = "hidden"
    /\ HiddenPassEnds =>
          IF IsSolved(value) \/ ~IsConsistent(value, candidates)
          THEN pc' = "post"
          ELSE IF IterationChanged
          THEN pc' = "naked" /\ gi' = 1
          ELSE pc' = "post"

\* C23: in every iteration of propagate's loop naked single goes through all
\* 27 groups before hidden single goes through any; propagate returns after
\* either pass if the board is then solved or inconsistent; otherwise the
\* loop repeats iff the iteration changed the board.
C23_PropagateOrder == [][PropagateInOrder]_vars

\* A hidden-single pass has ended on an unsolved, consistent board in an
\* iteration in which naked single removed candidates and hidden single
\* filled no tile.
C23_Witness ==
    /\ HiddenPassEnds
    /\ ~IsSolved(value)
    /\ IsConsistent(value, candidates)
    /\ TotalCandidates(candidates) < iterCands
    /\ Cardinality(Unknowns(value)) = iterOpen
    /\ changed
    /\ ~(gchanged \/ hchanged)

\* The digits held by tiles of the group.
AssignedIn(vals, g) == {vals[u] : u \in Members(g)} \ {UNKNOWN}

\* Some tile has lost a candidate in the step.
SomeSetSmaller ==
    \E t \in Tiles :
        candidates'[t] \subseteq candidates[t] /\ candidates'[t] # candidates[t]

\* The step is a call of naked_single_constrain on group gi with the effect
\* and the frame of the claim.
NakedEffectAndFrame ==
    /\ value' = value
    /\ \A t \in Tiles :
          candidates'[t] =
              IF t \in Members(gi) /\ value[t] = UNKNOWN
              THEN candidates[t] \ AssignedIn(value, gi)
              ELSE candidates[t]
    /\ gi < NGROUPS => (changed' <=> (changed \/ SomeSetSmaller))
    /\ (gi = NGROUPS /\ pc' = "hidden")
          => (changed' <=> (changed \/ SomeSetSmaller))

\* C24: naked_single_constrain on a group leaves each UNKNOWN member with its
\* candidates minus the digits held in the group, changes no value, no tile
\* that holds a digit and no tile outside the group, and returns true iff a
\* candidate set became smaller.
C24_NakedEffect == [][pc = "naked" => NakedEffectAndFrame]_vars

\* Inside a guess, naked_single_constrain has just taken candidates from a
\* group: its UNKNOWN tiles have none of the group's digits left, and it
\* has reported the change.
C24_Witness ==
    /\ pc = "naked"
    /\ gi > 1
    /\ stack # << >>
    /\ changed
    /\ AssignedIn(value, gi - 1) # {}
    /\ \E t \in Members(gi - 1) :
          value[t] = UNKNOWN /\ candidates[t] # CHOICES
    /\ \A t \in Members(gi - 1) :
          value[t] = UNKNOWN => candidates[t] \cap AssignedIn(value, gi - 1) = {}

\* Every tile that holds a digit in the initial grid holds it still.
GivensKept == \A t \in Tiles : initial[t] # UNKNOWN => value[t] = initial[t]

\* A tile that gets a digit from set_value, in hidden single or in a guess,
\* was UNKNOWN.
SetValueOnUnknown ==
    \A t \in Tiles :
        (pc \in {"hidden", "try"} /\ value'[t] # value[t])
            => value[t] = UNKNOWN

\* C25: a tile that holds a digit in the initial grid holds that digit in
\* every state of solve and at its return; set_value is applied to UNKNOWN
\* tiles only.
C25_GivensKept == []GivensKept /\ [][SetValueOnUnknown]_vars

\* solve has returned False on a board with givens and with tiles filled
\* since.
C25_Witness ==
    /\ pc = "done"
    /\ ~result
    /\ \E t \in Tiles : initial[t] # UNKNOWN
    /\ \E t \in Tiles : initial[t] = UNKNOWN /\ value[t] # UNKNOWN
    /\ GivensKept

\* propagate has returned with the board neither solved nor inconsistent.
PropagateStalled ==
    pc = "post" /\ ~IsSolved(value) /\ IsConsistent(value, candidates)

\* naked_single_constrain on group g would return false.
NakedIdle(g) == NakedSingleConstrain(value, candidates, g) = candidates

\* hidden_single_constrain on group g would return false: no digit that the
\* group lacks has a bucket of one tile.
HiddenIdle(g) ==
    \A v \in Leftovers(value, g) :
        Cardinality(Bucket(candidates, g, v)) # 1

\* C26: when propagate returns with the board neither solved nor
\* inconsistent, naked_single_constrain and hidden_single_constrain would
\* return false on every group.
C26_FixedPoint ==
    PropagateStalled => \A g \in 1..NGROUPS : NakedIdle(g) /\ HiddenIdle(g)

\* propagate has stalled inside a guess, after more than the givens were
\* filled, with tiles still UNKNOWN.
C26_Witness ==
    /\ PropagateStalled
    /\ stack # << >>
    /\ Cardinality(Unknowns(value)) >= 2
    /\ \A g \in 1..NGROUPS : HiddenIdle(g)

\* The UNKNOWN tiles left with exactly one candidate.
Forced(vals, cands) ==
    {t \in Unknowns(vals) : Cardinality(cands[t]) = 1}

\* C27 as stated: when propagate returns with the board neither solved nor
\* inconsistent, no UNKNOWN tile has exactly one candidate, and the tile
\* solve then selects has at least two candidates.
C27_NoForcedCell ==
    /\ [](PropagateStalled => Forced(value, candidates) = {})
    /\ [][ReachesGuess =>
             Cardinality(stack'[Len(stack')].cands) >= 2]_vars

\* Another UNKNOWN tile of group g could hold every candidate of t.
SharedIn(g, t) ==
    \E u \in Members(g) \ {t} :
        value[u] = UNKNOWN /\ candidates[t] \subseteq candidates[u]

\* C27, amended: when propagate returns with the board neither solved nor
\* inconsistent, every UNKNOWN tile has a candidate, and an UNKNOWN tile is
\* left with exactly one candidate only if, in its row, its column and its
\* block, another UNKNOWN tile has that digit among its candidates.
C27_ForcedCellShared ==
    PropagateStalled =>
        /\ \A t \in Unknowns(value) : candidates[t] # {}
        /\ \A t \in Forced(value, candidates) :
               \A g \in GroupsOf(t) : SharedIn(g, t)

\* solve is trying the only candidate of the tile it selected, on a board
\* propagate left neither solved nor inconsistent.
C27_Witness ==
    /\ pc = "try"
    /\ stack # << >>
    /\ value[Top.best_tile] = UNKNOWN
    /\ Cardinality(candidates[Top.best_tile]) = 1
    /\ Top.cands = candidates[Top.best_tile]
    /\ \A g \in GroupsOf(Top.best_tile) : SharedIn(g, Top.best_tile)

====
